---- MODULE Spec2Model ----
(***************************************************************************)
(* Model of the persisted-state bulk deployment pipeline                   *)
(* (src/automated_deploy_v2.js, second script, lines 260-518).             *)
(*                                                                         *)
(* One run of the script enumerates the project folders of the working     *)
(* root and processes them one after the other: load the sidecar record,   *)
(* local git setup, the three stages (GitHub, Vercel, Netlify), and the    *)
(* move into "upload done".  Every external command and every file write   *)
(* is a nondeterministic choice between success and failure.  A failed     *)
(* file write is modelled as leaving the previous content in place.        *)
(* Failures are explored in at most MaxTroubled passes (one folder in one  *)
(* run); within such a pass any number of commands and writes may fail.    *)
(*                                                                         *)
(* Spec is the pipeline run MaxRuns times.  LiveSpec runs it again and     *)
(* again under weak fairness.  CrashSpec adds the death of the process at  *)
(* any position of a run, which inside a save may leave a truncated file.  *)
(***************************************************************************)
EXTENDS Integers, Sequences, FiniteSets, TLC

\* ---------------------------------------------------------------- bounds
NumFolders == 2      \* project folders in the working root
MaxRuns    == 2      \* invocations of the whole script
MaxSuffix  == 0      \* random numeric suffixes are drawn from 0..MaxSuffix
MaxStamp   == 1      \* Date.now() values are drawn from 1..MaxStamp
MaxTroubled == 1     \* passes (one folder in one run) in which something fails

\* ------------------------------------------------------ program constants
createMaxAttempts == 5     \* createGitHubRepo: const maxAttempts = 5
moveMaxAttempts   == 10    \* moveFolderWithRetry: const maxAttempts = 10

Folders == 1..NumFolders
ROOT    == 0               \* SOURCE_DIR as a value of the working directory

\* ------------------------------------------------------------ folder names
\* Names are sequences of one-character strings.
UpperChars == {"A", "B"}
LowerChars == {"a", "b", "p", "r", "o", "j", "e", "c", "t"}
DigitChars == {"0", "1", "2", "3", "4", "5", "6", "7", "8", "9"}
SpaceChars == {" "}

ToLower(c) == CASE c = "A" -> "a" [] c = "B" -> "b" [] OTHER -> c

DigitChar(d) ==
    CASE d = 0 -> "0" [] d = 1 -> "1" [] d = 2 -> "2" [] d = 3 -> "3"
      [] d = 4 -> "4" [] d = 5 -> "5" [] d = 6 -> "6" [] d = 7 -> "7"
      [] d = 8 -> "8" [] OTHER -> "9"

RECURSIVE NumChars(_)
NumChars(n) == IF n < 10 THEN <<DigitChar(n)>>
               ELSE NumChars(n \div 10) \o <<DigitChar(n % 10)>>

\* The names of the folders of the working root.
FolderName(f) ==
    CASE f = 1 -> <<"A", " ", " ", "b">>
      [] f = 2 -> <<"!", "-", "!">>
      [] OTHER -> <<"-", "B", "!">> \o NumChars(f)

\* .toLowerCase()
RECURSIVE LowerCase(_)
LowerCase(s) == IF s = <<>> THEN <<>>
                ELSE <<ToLower(Head(s))>> \o LowerCase(Tail(s))

\* .replace(/\s+/g, '-') : every maximal run of whitespace becomes one '-'
RECURSIVE SpacesToDash(_)
SpacesToDash(s) ==
    IF s = <<>> THEN <<>>
    ELSE IF Head(s) \in SpaceChars
         THEN IF Len(s) > 1 /\ s[2] \in SpaceChars
              THEN SpacesToDash(Tail(s))
              ELSE <<"-">> \o SpacesToDash(Tail(s))
         ELSE <<Head(s)>> \o SpacesToDash(Tail(s))

\* .replace(/[^a-z0-9-]/g, '')
RECURSIVE StripOthers(_)
StripOthers(s) ==
    IF s = <<>> THEN <<>>
    ELSE IF Head(s) \in LowerChars \cup DigitChars \cup {"-"}
         THEN <<Head(s)>> \o StripOthers(Tail(s))
         ELSE StripOthers(Tail(s))

\* .replace(/-+/g, '-')
RECURSIVE CollapseDashes(_)
CollapseDashes(s) ==
    IF s = <<>> THEN <<>>
    ELSE IF Head(s) = "-" /\ Len(s) > 1 /\ s[2] = "-"
         THEN CollapseDashes(Tail(s))
         ELSE <<Head(s)>> \o CollapseDashes(Tail(s))

\* .replace(/^-|-$/g, '') : one leading and one trailing '-' are removed
TrimDashes(s) ==
    LET a == IF s # <<>> /\ Head(s) = "-" THEN Tail(s) ELSE s
    IN  IF a # <<>> /\ a[Len(a)] = "-" THEN SubSeq(a, 1, Len(a) - 1) ELSE a

CleanName(folder) ==
    TrimDashes(CollapseDashes(StripOthers(SpacesToDash(LowerCase(folder)))))

\* baseName of the folder at 0-based position idx0 of the folders array
baseName(f, idx0) ==
    IF CleanName(FolderName(f)) # <<>> THEN CleanName(FolderName(f))
    ELSE <<"p", "r", "o", "j", "e", "c", "t", "-">> \o NumChars(idx0)

\* `${projectName}-${randomSuffix}`
Suffixed(projectName, sfx) == projectName \o <<"-">> \o NumChars(sfx)

\* ---------------------------------------------------------- status record
NoName == <<>>       \* repoName: null

DefaultStatus ==
    [github |-> FALSE, vercel |-> FALSE, netlify |-> FALSE, repoName |-> NoName]

\* Content of the sidecar file .deploy_progress.json of a folder:
\*   absent   no such file
\*   garbage  content on which JSON.parse throws
\*   null     the JSON text "null"
\*   record   a JSON object written by an earlier run
Absent  == [kind |-> "absent",  rec |-> DefaultStatus]
Garbage == [kind |-> "garbage", rec |-> DefaultStatus]
JsonNull == [kind |-> "null",   rec |-> DefaultStatus]
\* variant: the status file is cleaned up once all three stages are done
Stored_cleanup(st) ==
    IF st.github /\ st.vercel /\ st.netlify THEN Absent
    ELSE [kind |-> "record", rec |-> st]

\* variant: a save made once Vercel is done writes another name
Stored_retitled(st) ==
    [kind |-> "record",
     rec |-> IF st.vercel THEN [st EXCEPT !.repoName = <<"x">>] ELSE st]

Stored(st) == [kind |-> "record", rec |-> st]

\* fs.existsSync(statusFilePath)
StatusFileExists(sc) == sc.kind # "absent"

\* JSON.parse(...) throws (caught by the empty catch)
ParseThrows(sc) == sc.kind = "garbage"

\* the value of `status` after the read block is null
StatusIsNull(sc) == StatusFileExists(sc) /\ ~ParseThrows(sc) /\ sc.kind = "null"

\* the value of `status` after the read block, when it is an object
LoadedStatus(sc) ==
    IF StatusFileExists(sc) /\ ~ParseThrows(sc) /\ sc.kind = "record"
    THEN sc.rec ELSE DefaultStatus


\* --------------------------------------------------------------- state
VARIABLES
    run,          \* number of invocations of the script started so far
    pc,           \* position of the running script ("idle": no script runs)
    folders,      \* the folders array of the running script
    index,        \* 1-based position in folders of the current folder
    cur,          \* the folder being processed (0: none yet in this run)
    cwd,          \* process.cwd(): ROOT or a folder
    status,       \* the in-memory status object of the current folder
    projectName,  \* createGitHubRepo: parameter projectName
    currentName,  \* createGitHubRepo: let currentName
    attempts,     \* let attempts (createGitHubRepo and moveFolderWithRetry)
    finalDest,    \* let finalDest: the destination entry of the move
    loc,          \* per folder: "root" (in SOURCE_DIR) or "done" (moved)
    sidecar,      \* per folder: content of .deploy_progress.json
    dotGit,       \* per folder: the .git directory exists
    gitignore,    \* per folder: "absent", "user" (pre-existing) or "template"
    dotNetlify,   \* per folder: the .netlify directory exists
    dotVercel,    \* per folder: the .vercel directory exists
    destEntries,  \* entries of "upload done": <<folder name, stamp>>
    calls,        \* history: commands and renames issued for cur in this run
    loaded,       \* history: the status object as loaded for cur
    result,       \* history: per stage, what happened for cur in this run
    exit,         \* history: how the processing of cur ended
    processed,    \* history: folders whose callback was entered in this run
    aborted,      \* history: the running script died on an uncaught error
    troubled,     \* number of passes so far in which a command or write failed
    failing,      \* a command or write has failed in the current pass
    mixed,        \* history: folders whose last pass started from an all-false
                  \* record and ended GitHub ok, Vercel failed, Netlify ok
    ghLog,        \* history: `gh repo create` calls of the running
                  \* createGitHubRepo (how many, outcome of the last one)
    mvLog,        \* history: fs.renameSync calls of this pass (how many, how
                  \* many threw a lock code, outcome of the last one)
    linkage,      \* history: per host, how provisioning/linking ended for cur
                  \* (kept until the next stage has started)
    everSaved     \* history: per folder, the flags ever written as true

vars == <<run, pc, folders, index, cur, cwd, status, projectName, currentName,
          attempts, finalDest, loc, sidecar, dotGit, gitignore, dotNetlify,
          dotVercel, destEntries, calls, loaded, result, exit, processed, aborted,
          troubled, failing, mixed, ghLog, mvLog, linkage, everSaved>>

env     == <<loc, sidecar, dotGit, gitignore, dotNetlify, dotVercel, destEntries>>
runVars == <<run, folders, index, processed, aborted>>
ghVars  == <<projectName, currentName, attempts>>
hist    == <<ghLog, mvLog, linkage, everSaved>>

Stages == {"github", "vercel", "netlify"}

NoResult == [github |-> "none", vercel |-> "none", netlify |-> "none"]

\* no `gh repo create` yet / no fs.renameSync yet / no linking step yet
NoCreate  == [n |-> 0, last |-> "none"]
NoRename  == [n |-> 0, locked |-> 0, last |-> "none"]

\* what a call of fs.renameSync did, as the history keeps it: it returned,
\* it threw one of the three lock codes, or it threw something else
RenameClass(out) ==
    IF out = "ok" THEN "ok"
    ELSE IF out \in {"EBUSY", "EPERM", "EACCES"} THEN "lock" ELSE "other"
NoLinkage == [vercel |-> "none", netlify |-> "none"]

\* an entry of the calls history
Cmd(cmd) == cmd

\* the calls history extended by the commands cs; a command that repeats the
\* last entry is not entered again
RECURSIVE Logged(_, _)
Logged(log, cs) ==
    IF cs = <<>> THEN log
    ELSE IF log # <<>> /\ log[Len(log)] = Head(cs) THEN Logged(log, Tail(cs))
         ELSE Logged(Append(log, Head(cs)), Tail(cs))

\* the folders that readdirSync + filter return, in directory order
\* (entries of SOURCE_DIR: the project folders not yet moved, and the
\* directory 'upload done' itself, which the script creates at its start)
UploadDone == NumFolders + 1

InRoot(e) == e = UploadDone \/ loc[e] = "root"

\* variant: 'upload done' is not excluded
IsCandidate_all(e) == TRUE

\* the filter: ... && item !== 'upload done' && ...
IsCandidate(e) == e # UploadDone

RECURSIVE Listing(_)
Listing(n) == IF n = 0 THEN <<>>
              ELSE IF InRoot(n) /\ IsCandidate(n)
                   THEN Append(Listing(n - 1), n)
                   ELSE Listing(n - 1)

Init ==
    /\ run = 0 /\ pc = "idle" /\ folders = <<>> /\ index = 0 /\ cur = 0
    /\ cwd = ROOT
    /\ status = DefaultStatus
    /\ projectName = NoName /\ currentName = NoName /\ attempts = 0
    /\ finalDest = <<0, 0>>
    /\ loc = [f \in Folders |-> "root"]
    /\ sidecar \in [Folders -> {Absent, Garbage, JsonNull}]
    /\ dotGit = [f \in Folders |-> FALSE]
    /\ \/ /\ gitignore = [f \in Folders |-> "absent"]
          /\ destEntries = {}
       \/ /\ gitignore = [f \in Folders |-> "user"]
          /\ destEntries = {<<1, 0>>}
    /\ dotNetlify = [f \in Folders |-> FALSE]
    /\ dotVercel = [f \in Folders |-> FALSE]
    /\ calls = <<>> /\ loaded = DefaultStatus /\ result = NoResult
    /\ exit = "none" /\ processed = {} /\ aborted = FALSE
    /\ troubled = 0 /\ failing = FALSE /\ mixed = {}
    /\ ghLog = NoCreate /\ mvLog = NoRename /\ linkage = NoLinkage
    /\ everSaved = [f \in Folders |-> {}]

\* ------------------------------------------------------ failing outcomes
\* A command or write of the current pass does not succeed (ok = FALSE):
\* allowed in at most MaxTroubled passes.  The operator also records it.
Outcome(ok) ==
    IF ok THEN UNCHANGED <<troubled, failing>>
    ELSE /\ failing \/ troubled < MaxTroubled
         /\ troubled' = (IF failing THEN troubled ELSE troubled + 1)
         /\ failing' = TRUE

\* ------------------------------------------------------- end of a callback
\* The forEach callback of folder cur returns (ex says how); the next
\* callback is entered, or the script ends.
IsMixedPass(ld, res) ==
    /\ ~ld.github /\ ~ld.vercel /\ ~ld.netlify
    /\ res.github = "ok" /\ res.vercel = "fail" /\ res.netlify = "ok"

Finish(ex, res) ==
    /\ exit' = ex
    /\ mixed' = IF IsMixedPass(loaded, res) THEN mixed \cup {cur}
                ELSE mixed \ {cur}
    /\ pc' = "exit"

\* variant: after the catch the folder is moved all the same
Caught_thenMove(res) ==
    /\ cwd' = ROOT
    /\ exit' = "caught" /\ mixed' = mixed
    /\ pc' = "rename"

\* catch (fatalErr) { ...; process.chdir(SOURCE_DIR); }
Caught(res) ==
    /\ cwd' = ROOT
    /\ Finish("caught", res)

\* ------------------------------------------------------------ main script
\* the start of the script: enumerate the folders, enter the loop
Launch ==
    /\ pc = "idle"
    /\ folders' = Listing(UploadDone)
    /\ index' = 1
    /\ pc' = IF Listing(UploadDone) = <<>> THEN "idle" ELSE "load"
    /\ cwd' = ROOT
    /\ cur' = 0 /\ status' = DefaultStatus /\ loaded' = DefaultStatus
    /\ calls' = <<>> /\ result' = NoResult /\ exit' = "none"
    /\ projectName' = NoName /\ currentName' = NoName /\ attempts' = 0
    /\ finalDest' = <<0, 0>>
    /\ processed' = {} /\ aborted' = FALSE
    /\ failing' = FALSE
    /\ ghLog' = NoCreate /\ mvLog' = NoRename /\ linkage' = NoLinkage
    /\ UNCHANGED <<env, troubled, mixed, everSaved>>

\* node automated_deploy_v2.js, one of the first MaxRuns invocations
StartRun ==
    /\ run < MaxRuns
    /\ run' = run + 1
    /\ Launch

\* node automated_deploy_v2.js, any later invocation (not counted)
Rerun ==
    /\ run = MaxRuns
    /\ run' = run
    /\ Launch

\* Read status file, clean name, log the status (lines 406-429).  The log
\* line reads status.github: with status === null it throws outside the try
\* of the callback, which ends the script.
LoadStatus ==
    /\ pc = "load"
    /\ LET f == folders[index] IN
       /\ cur' = f
       /\ processed' = processed \cup {f}
       /\ IF StatusIsNull(sidecar[f])
          THEN /\ aborted' = TRUE
               /\ pc' = "idle"
               /\ status' = DefaultStatus /\ loaded' = DefaultStatus
          ELSE /\ aborted' = aborted
               /\ pc' = "setup"
               /\ status' = LoadedStatus(sidecar[f])
               /\ loaded' = LoadedStatus(sidecar[f])
    /\ UNCHANGED <<run, folders, index, cwd, env, troubled, failing, mixed,
                   calls,
                   result, exit,
                   ghVars, finalDest, hist>>

\* variant: .gitignore is written whether it exists or not
NeedIgnore_always(g) == TRUE

\* !fs.existsSync(path.join(projectPath, '.gitignore'))
NeedIgnore(g) == g = "absent"

\* process.chdir(projectPath); git init; .gitignore; then the try block of
\* `git add .` and `git commit`, whose errors are swallowed (one entry of the
\* calls history stands for the block)
GitSetup ==
    /\ pc = "setup"
    /\ \E initOk \in BOOLEAN, writeOk \in BOOLEAN :
         LET needInit   == ~dotGit[cur]
             needIgnore == NeedIgnore(gitignore[cur])
             c1 == IF needInit THEN <<Cmd("git init")>> ELSE <<>>
             c2 == <<Cmd("git add/commit")>>
             allOk == (needInit => initOk) /\ (needIgnore => writeOk)
         IN  /\ Outcome(allOk)
             /\ ~needInit => initOk
             /\ ~needIgnore => writeOk
             /\ (needInit /\ ~initOk) => writeOk
             /\ IF needInit /\ ~initOk
                THEN /\ calls' = Logged(calls, c1)
                     /\ UNCHANGED <<dotGit, gitignore>>
                     /\ Caught(result)
                ELSE IF needIgnore /\ ~writeOk
                THEN /\ calls' = Logged(calls, c1)
                     /\ dotGit' = [dotGit EXCEPT ![cur] = TRUE]
                     /\ UNCHANGED gitignore
                     /\ Caught(result)
                ELSE /\ calls' = Logged(calls, c1 \o c2)
                     /\ dotGit' = [dotGit EXCEPT ![cur] = TRUE]
                     /\ gitignore' = IF needIgnore
                                     THEN [gitignore EXCEPT ![cur] = "template"]
                                     ELSE gitignore
                     /\ cwd' = cur
                     /\ pc' = "github"
                     /\ UNCHANGED <<exit, mixed>>
    /\ UNCHANGED <<runVars, cur, status, ghVars, finalDest, loc, sidecar,
                   dotNetlify, dotVercel, destEntries, loaded, result, hist>>


\* ------------------------------------------------------- createGitHubRepo
\* What `gh repo create` can do: succeed, or fail with a stderr text.
\*   taken    "... Name already exists on this account ..."
\*   origin   "... remote origin already exists."
\*   other    any other text
\*   silent   e.stderr is empty: errOutput is ""
GhOutcomes == {"ok", "taken", "origin", "other", "silent"}

\* errOutput.includes("already exists") || errOutput.includes("name already exists")
SaysAlreadyExists(out) == out \in {"taken", "origin"}

\* errOutput.includes("remote origin already exists")
SaysOriginExists(out) == out = "origin"

\* first branch of the catch: the name is taken, retry under a new name
IsNameTaken(out) == SaysAlreadyExists(out)

\* second branch (else if): the remote exists, push instead
IsOriginExists(out) == ~IsNameTaken(out) /\ SaysOriginExists(out)

\* if (finalRepoName)
Truthy(name) == name # NoName

\* variant: the Vercel stage has no guard
StagePending_vercelAlways(st, stage) == stage = "vercel" \/ ~st[stage]

\* variant: the Netlify stage has no guard
StagePending_netlifyAlways(st, stage) == stage = "netlify" \/ ~st[stage]

\* if (!status.github) / (!status.vercel) / (!status.netlify)
StagePending(st, stage) == ~st[stage]

\* variant: the move decision forgets the Netlify flag
AllDone_noNetlify(st) == st.github /\ st.vercel

\* variant: the move decision forgets the Vercel flag
AllDone_noVercel(st) == st.github /\ st.netlify

\* if (status.github && status.vercel && status.netlify)
AllDone(st) == st.github /\ st.vercel /\ st.netlify

\* variant: the move loop allows one more attempt
MoveLoopContinues_eleven(n) == n < 11

\* while (attempts < maxAttempts) of moveFolderWithRetry
MoveLoopContinues(n) == n < moveMaxAttempts

\* variant: EPERM is not treated as a lock
IsLockClass_noEperm(code) == code \in {"EBUSY", "EACCES"}

\* variant: every error of the rename is treated as a lock
IsLockClass_any(code) == code # "ok"

\* e.code === 'EBUSY' || e.code === 'EPERM' || e.code === 'EACCES'
IsLockClass(code) == code \in {"EBUSY", "EPERM", "EACCES"}

\* variant: a failed provisioning / linking step ends the stage
Swallowed_rethrow(ok) == ok

\* try { <provisioning / linking> } catch (e) { } : whatever the outcome of
\* the step, the statement after the inner try is reached
Swallowed(ok) == TRUE

\* variant: the working directory is left where it is before the move
MoveCwd_stay(c) == c

\* process.chdir(SOURCE_DIR) before the move (and again at the start of
\* moveFolderWithRetry): the working directory afterwards
MoveCwd(c) == ROOT

\* variant: the status file is removed when the folder is moved
MovedSidecar_cleanup(sc) == Absent

\* the status file of a folder after fs.renameSync moved the folder
\* ("Clean up status file before moving? ... keeping it is safer.")
MovedSidecar(sc) == sc

\* variant: the destination is never found to exist
DestExists_never(dest) == FALSE

\* fs.existsSync(dest)
DestExists(dest) == dest \in destEntries

\* the flags written as true by fs.writeFileSync(statusFilePath, ...) of
\* folder f, added to those written before
Saved(ev, f, st) == [ev EXCEPT ![f] = @ \cup {s \in Stages : st[s]}]

\* 2. GitHub: the guard, and the call of createGitHubRepo
GitHubStage ==
    /\ pc = "github"
    /\ IF StagePending(status, "github")
       THEN /\ projectName' = (IF Truthy(status.repoName) THEN status.repoName
                               ELSE baseName(cur, index - 1))
            /\ currentName' = projectName'
            /\ attempts' = 0
            /\ pc' = "gh_create"
            /\ UNCHANGED result
       ELSE /\ result' = [result EXCEPT !.github = "skipped"]
            /\ pc' = "vercel"
            /\ UNCHANGED ghVars
    /\ UNCHANGED <<runVars, cur, cwd, status, finalDest, env, calls,
                   loaded, exit, troubled, failing, mixed, hist>>

\* one iteration of while (!created && attempts < maxAttempts), or its exit;
\* on return the local attempts goes out of scope (reset to 0)
GhCreate ==
    /\ pc = "gh_create"
    /\ IF attempts < createMaxAttempts
       THEN \E out \in GhOutcomes, sfx \in 0..MaxSuffix,
               pushMaster \in BOOLEAN :
              LET c == Cmd("gh repo create") IN
              /\ Outcome(out = "ok")
              /\ ghLog' = [n |-> ghLog.n + 1, last |-> out]
              /\ IF out = "ok"
                 THEN /\ calls' = Logged(calls, <<c>>)
                      /\ result' = [result EXCEPT !.github = "acted"]
                      /\ pc' = "gh_save"
                      /\ attempts' = 0
                      /\ UNCHANGED currentName
                 ELSE IF IsNameTaken(out)
                 THEN /\ calls' = Logged(calls, <<c>>)
                      /\ currentName' = Suffixed(projectName, sfx)
                      /\ attempts' = attempts + 1
                      /\ UNCHANGED <<pc, result>>
                 ELSE IF IsOriginExists(out)
                 THEN /\ calls' = Logged(calls, <<c, Cmd("git push master")>>
                                   \o (IF pushMaster THEN <<>>
                                       ELSE <<Cmd("git push main")>>))
                      /\ result' = [result EXCEPT !.github = "acted"]
                      /\ pc' = "gh_save"
                      /\ attempts' = 0
                      /\ UNCHANGED currentName
                 ELSE /\ calls' = Logged(calls, <<c>>)
                      /\ result' = [result EXCEPT !.github = "fail"]
                      /\ pc' = "gh_save"
                      /\ attempts' = 0
                      /\ UNCHANGED currentName
       ELSE /\ result' = [result EXCEPT !.github = "fail"]
            /\ pc' = "gh_save"
            /\ attempts' = 0
            /\ UNCHANGED <<calls, currentName, troubled, failing, ghLog>>
    /\ UNCHANGED <<runVars, cur, cwd, status, projectName, finalDest,
                   env, loaded, exit, mixed, mvLog, linkage, everSaved>>

\* if (finalRepoName) { status.github = true; status.repoName = ...; write }
\* (finalRepoName is the returned currentName; the locals are then dropped)
GitHubSave ==
    /\ pc = "gh_save"
    /\ IF Truthy(currentName)
       THEN /\ status' = [status EXCEPT !.github = TRUE,
                                        !.repoName = currentName]
            /\ \E writeOk \in BOOLEAN :
                 /\ Outcome(writeOk)
                 /\ IF writeOk
                    THEN /\ sidecar' = [sidecar EXCEPT ![cur] = Stored(status')]
                         /\ everSaved' = Saved(everSaved, cur, status')
                         /\ result' = [result EXCEPT !.github =
                                         IF @ = "acted" THEN "ok" ELSE @]
                         /\ pc' = "vercel"
                         /\ UNCHANGED <<cwd, exit, mixed>>
                    ELSE /\ result' = [result EXCEPT !.github =
                                         IF @ = "acted" THEN "unsaved" ELSE @]
                         /\ UNCHANGED <<sidecar, everSaved>>
                         /\ Caught(result')
       ELSE /\ pc' = "vercel"
            /\ UNCHANGED <<status, sidecar, result, cwd, exit, troubled,
                           failing, mixed, everSaved>>
    /\ projectName' = NoName /\ currentName' = NoName
    /\ ghLog' = NoCreate
    /\ UNCHANGED <<runVars, cur, attempts, finalDest, loc, dotGit, gitignore,
                   dotNetlify, dotVercel, destEntries, calls, loaded, mvLog, linkage>>


\* ------------------------------------------------------------- 3. Vercel
\* the guard, `vercel project add` (errors swallowed), `vercel --prod --yes`
\* (a deploy that succeeds has linked the folder: it leaves .vercel behind)
VercelStage ==
    /\ pc = "vercel"
    /\ IF StagePending(status, "vercel")
       THEN \E addOk \in BOOLEAN, deployOk \in BOOLEAN :
              /\ Outcome(addOk /\ deployOk)
              /\ linkage' = [linkage EXCEPT !.vercel =
                                IF addOk THEN "ok" ELSE "fail"]
              /\ IF Swallowed(addOk)
                 THEN /\ calls' = Logged(calls, <<Cmd("vercel project add"),
                                                  Cmd("vercel deploy")>>)
                      /\ IF deployOk
                         THEN /\ result' = [result EXCEPT !.vercel = "acted"]
                              /\ dotVercel' = [dotVercel EXCEPT ![cur] = TRUE]
                              /\ pc' = "vercel_save"
                         ELSE /\ result' = [result EXCEPT !.vercel = "fail"]
                              /\ UNCHANGED dotVercel
                              /\ pc' = "netlify"
                 ELSE /\ deployOk
                      /\ calls' = Logged(calls, <<Cmd("vercel project add")>>)
                      /\ result' = [result EXCEPT !.vercel = "fail"]
                      /\ UNCHANGED dotVercel
                      /\ pc' = "netlify"
       ELSE /\ result' = [result EXCEPT !.vercel = "skipped"]
            /\ pc' = "netlify"
            /\ UNCHANGED <<calls, troubled, failing, linkage, dotVercel>>
    /\ UNCHANGED <<runVars, cur, cwd, status, ghVars, finalDest, loc, sidecar,
                   dotGit, gitignore, dotNetlify, destEntries,
                   loaded, exit, mixed, ghLog, mvLog, everSaved>>

\* status.vercel = true; fs.writeFileSync(...) inside the try of the stage
VercelSave ==
    /\ pc = "vercel_save"
    /\ status' = [status EXCEPT !.vercel = TRUE]
    /\ \E writeOk \in BOOLEAN :
         /\ Outcome(writeOk)
         /\ IF writeOk
            THEN /\ sidecar' = [sidecar EXCEPT ![cur] = Stored(status')]
                 /\ everSaved' = Saved(everSaved, cur, status')
                 /\ result' = [result EXCEPT !.vercel = "ok"]
            ELSE /\ result' = [result EXCEPT !.vercel = "unsaved"]
                 /\ UNCHANGED <<sidecar, everSaved>>
    /\ pc' = "netlify"
    /\ UNCHANGED <<runVars, cur, cwd, ghVars, finalDest, loc, dotGit,
                   gitignore, dotNetlify, dotVercel, destEntries, calls, loaded, exit,
                   mixed, ghLog, mvLog, linkage>>

\* ------------------------------------------------------------ 4. Netlify
\* the guard, sites:create + link when .netlify is missing (errors
\* swallowed), `netlify deploy --prod --dir=.`
NetlifyStage ==
    /\ pc = "netlify"
    /\ IF StagePending(status, "netlify")
       THEN \E createOk \in BOOLEAN, linkOk \in BOOLEAN, deployOk \in BOOLEAN :
              LET needSite == ~dotNetlify[cur]
                  c1 == IF ~needSite THEN <<>>
                        ELSE IF createOk
                             THEN <<Cmd("netlify sites:create"),
                                    Cmd("netlify link")>>
                             ELSE <<Cmd("netlify sites:create")>>
                  allOk == (needSite => (createOk /\ linkOk)) /\ deployOk
              IN  /\ Outcome(allOk)
                  /\ ~needSite => createOk
                  /\ ~(needSite /\ createOk) => linkOk
                  /\ dotNetlify' = IF needSite /\ createOk /\ linkOk
                                   THEN [dotNetlify EXCEPT ![cur] = TRUE]
                                   ELSE dotNetlify
                  /\ linkage' = [NoLinkage EXCEPT !.netlify =
                                    IF ~needSite THEN "none"
                                    ELSE IF createOk /\ linkOk THEN "ok"
                                    ELSE "fail"]
                  /\ IF Swallowed(createOk /\ linkOk)
                     THEN /\ calls' = Logged(calls,
                                            c1 \o <<Cmd("netlify deploy")>>)
                          /\ IF deployOk
                             THEN /\ result' = [result EXCEPT
                                                  !.netlify = "acted"]
                                  /\ pc' = "netlify_save"
                             ELSE /\ result' = [result EXCEPT
                                                  !.netlify = "fail"]
                                  /\ pc' = "move"
                     ELSE /\ deployOk
                          /\ calls' = Logged(calls, c1)
                          /\ result' = [result EXCEPT !.netlify = "fail"]
                          /\ pc' = "move"
       ELSE /\ result' = [result EXCEPT !.netlify = "skipped"]
            /\ pc' = "move"
            /\ linkage' = NoLinkage
            /\ UNCHANGED <<calls, dotNetlify, troubled, failing>>
    /\ UNCHANGED <<runVars, cur, cwd, status, ghVars, finalDest, loc,
                   sidecar, dotGit, gitignore, dotVercel, destEntries, loaded,
                   exit, mixed, ghLog, mvLog, everSaved>>

\* status.netlify = true; fs.writeFileSync(...) inside the try of the stage
NetlifySave ==
    /\ pc = "netlify_save"
    /\ status' = [status EXCEPT !.netlify = TRUE]
    /\ \E writeOk \in BOOLEAN :
         /\ Outcome(writeOk)
         /\ IF writeOk
            THEN /\ sidecar' = [sidecar EXCEPT ![cur] = Stored(status')]
                 /\ everSaved' = Saved(everSaved, cur, status')
                 /\ result' = [result EXCEPT !.netlify = "ok"]
            ELSE /\ result' = [result EXCEPT !.netlify = "unsaved"]
                 /\ UNCHANGED <<sidecar, everSaved>>
    /\ pc' = "move"
    /\ UNCHANGED <<runVars, cur, cwd, ghVars, finalDest, loc, dotGit,
                   gitignore, dotNetlify, dotVercel, destEntries, calls, loaded, exit,
                   mixed, ghLog, mvLog, linkage>>

\* -------------------------------------------------------- 5. Move to Done
\* the decision; on the move branch chdir(SOURCE_DIR), sleep, pick finalDest
MoveDecision ==
    /\ pc = "move"
    /\ IF AllDone(status)
       THEN /\ cwd' = MoveCwd(cwd)
            /\ IF DestExists(<<cur, 0>>)
               THEN \E t \in 1..MaxStamp : finalDest' = <<cur, t>>
               ELSE finalDest' = <<cur, 0>>
            /\ attempts' = 0
            /\ pc' = "rename"
            /\ UNCHANGED <<exit, mixed>>
       ELSE /\ Finish("kept", result)
            /\ UNCHANGED <<cwd, finalDest, attempts>>
    /\ linkage' = NoLinkage
    /\ UNCHANGED <<runVars, cur, status, projectName, currentName, env, calls,
                   loaded, result, troubled, failing, ghLog, mvLog, everSaved>>

\* what fs.renameSync can do: succeed, or throw with an error code
RenameOutcomes == {"ok", "EBUSY", "EPERM", "EACCES", "ENOENT"}

\* moveFolderWithRetry: one iteration of the while loop, or its exit
Rename ==
    /\ pc = "rename"
    /\ IF MoveLoopContinues(attempts)
       THEN \E out \in RenameOutcomes :
              /\ out = "ok" => finalDest \notin destEntries
              /\ Outcome(out = "ok")
              /\ mvLog' = [n |-> mvLog.n + 1,
                           locked |-> IF RenameClass(out) = "lock"
                                      THEN mvLog.locked + 1 ELSE mvLog.locked,
                           last |-> RenameClass(out)]
              /\ IF out = "ok"
                 THEN /\ calls' = Logged(calls, <<Cmd("rename")>>)
                      /\ loc' = [loc EXCEPT ![cur] = "done"]
                      /\ destEntries' = destEntries \cup {finalDest}
                      /\ sidecar' = [sidecar EXCEPT ![cur] = MovedSidecar(@)]
                      /\ Finish("relocated", result)
                      /\ UNCHANGED <<attempts, cwd>>
                 ELSE IF IsLockClass(out)
                 THEN /\ calls' = Logged(calls, <<Cmd("rename")>>)
                      /\ attempts' = attempts + 1
                      /\ UNCHANGED <<pc, exit, mixed, loc, destEntries,
                                     cwd, sidecar>>
                 ELSE /\ calls' = Logged(calls, <<Cmd("rename")>>)
                      /\ Caught(result)
                      /\ UNCHANGED <<attempts, loc, destEntries, sidecar>>
       ELSE /\ Finish("movefailed", result)
            /\ UNCHANGED <<calls, attempts, loc, destEntries, cwd, troubled,
                           failing, mvLog, sidecar>>
    /\ UNCHANGED <<runVars, cur, status, projectName, currentName, finalDest,
                   dotGit, gitignore, dotNetlify, dotVercel, loaded, result,
                   ghLog, linkage, everSaved>>

\* the forEach callback has returned: the next one is entered, or the
\* script ends ("All done!")
NextFolder ==
    /\ pc = "exit"
    /\ index' = index + 1
    /\ pc' = IF index < Len(folders) THEN "load" ELSE "idle"
    /\ cur' = 0 /\ status' = DefaultStatus /\ loaded' = DefaultStatus
    /\ calls' = <<>> /\ result' = NoResult /\ exit' = "none"
    /\ projectName' = NoName /\ currentName' = NoName /\ attempts' = 0
    /\ finalDest' = <<0, 0>>
    /\ failing' = FALSE
    /\ ghLog' = NoCreate /\ mvLog' = NoRename /\ linkage' = NoLinkage
    /\ UNCHANGED <<run, folders, processed, aborted, cwd, env, troubled, mixed,
                   everSaved>>

Next ==
    \/ StartRun
    \/ LoadStatus
    \/ GitSetup
    \/ GitHubStage
    \/ GhCreate
    \/ GitHubSave
    \/ VercelStage
    \/ VercelSave
    \/ NetlifyStage
    \/ NetlifySave
    \/ MoveDecision
    \/ Rename
    \/ NextFolder

Spec == Init /\ [][Next]_vars

\* ------------------------------------------------------- repeated runs
\* The script is invoked again and again; every step that can be taken is
\* eventually taken (the script is sequential and every call is blocking).
\* Commands and writes fail in at most MaxTroubled passes.
LiveNext == Next \/ Rerun

LiveSpec == Init /\ [][LiveNext]_vars /\ WF_vars(LiveNext)

\* --------------------------------------------------------------- crash
\* The process is killed while a folder is being processed.  Everything in
\* memory is lost; the files stay.  fs.writeFileSync opens the file with
\* flag 'w', which truncates it, and then writes: a process killed inside
\* the save of a stage (torn) leaves an empty sidecar, on which JSON.parse
\* throws.
SavePcs == {"gh_save", "vercel_save", "netlify_save"}

Crash ==
    /\ pc # "idle"
    /\ \E torn \in BOOLEAN :
         /\ torn => (cur # 0 /\ pc \in SavePcs)
         /\ sidecar' = IF torn THEN [sidecar EXCEPT ![cur] = Garbage]
                       ELSE sidecar
    /\ pc' = "idle" /\ aborted' = TRUE
    /\ cwd' = ROOT
    /\ cur' = 0 /\ status' = DefaultStatus /\ loaded' = DefaultStatus
    /\ calls' = <<>> /\ result' = NoResult /\ exit' = "none"
    /\ projectName' = NoName /\ currentName' = NoName /\ attempts' = 0
    /\ finalDest' = <<0, 0>>
    /\ failing' = FALSE
    /\ ghLog' = NoCreate /\ mvLog' = NoRename /\ linkage' = NoLinkage
    /\ UNCHANGED <<run, folders, index, processed, loc, dotGit, gitignore,
                   dotNetlify, dotVercel, destEntries, troubled, mixed, everSaved>>

CrashNext == Next \/ Crash

CrashSpec == Init /\ [][CrashNext]_vars


\* =================================================================== claims
Range(seq) == {seq[i] : i \in 1..Len(seq)}

\* the commands of the three stages (their external collaborators)
StageCmds(stage) ==
    CASE stage = "github"  -> {"gh repo create", "git push master",
                               "git push main"}
      [] stage = "vercel"  -> {"vercel project add", "vercel deploy"}
      [] stage = "netlify" -> {"netlify sites:create", "netlify link",
                               "netlify deploy"}
AllStageCmds == UNION {StageCmds(s) : s \in Stages}

\* the local git setup that precedes the stages
SetupCmds == {"git init", "git add/commit"}

\* a rename of the current folder was attempted in this pass
Renamed == "rename" \in Range(calls)

AllFalse(st) == ~st.github /\ ~st.vercel /\ ~st.netlify
AllTrue(st)  == st.github /\ st.vercel /\ st.netlify

\* ------------------------------------------------------------------- C1
\* C1: a rename of the folder is attempted in a pass only if all three flags
\* of its (in-memory) record are true after the stages; a folder whose pass
\* ends with a flag false is still at its original path and saw no rename.
C1_MoveOnlyWhenAllDone ==
    /\ Renamed => AllTrue(status)
    /\ (pc = "exit" /\ ~AllTrue(status)) => (~Renamed /\ loc[cur] = "root")

C1_Witness == pc = "exit" /\ exit = "relocated" /\ AllTrue(status) /\ Renamed

\* ------------------------------------------------------------------- C2
\* C2: the GitHub stage sets its flag and writes the sidecar only when the
\* create-and-publish (or push) succeeded; when creation failed the flag is
\* false in memory and in the sidecar.
C2_FlagOnlyOnSuccess ==
    (cur # 0 /\ result.github = "fail")
        => (~status.github /\ ~LoadedStatus(sidecar[cur]).github)

\* ------------------------------------------------------------------- C3
\* C3 (as claimed): for a folder loaded with all three flags true no command
\* at all is invoked (no version-control, Vercel or Netlify command); the
\* only thing the pass does is the relocation attempt.
C3_NoCommandWhenAllDone ==
    (cur # 0 /\ AllTrue(loaded)) => Range(calls) \subseteq {"rename"}

\* C3 (amended): for a folder loaded with all three flags true no command of
\* a stage is invoked (gh repo create, git push, vercel, netlify); the pass
\* runs only the local git setup and then, unless that setup threw, attempts
\* the relocation.
C3_NoStageCommandWhenAllDone ==
    (cur # 0 /\ AllTrue(loaded)) =>
        /\ Range(calls) \subseteq SetupCmds \cup {"rename"}
        /\ pc \in {"github", "vercel", "netlify", "move", "rename"}
              => "git add/commit" \in Range(calls)
        /\ pc = "exit" => (Renamed \/ "git add/commit" \notin Range(calls))

C3_Witness == cur # 0 /\ AllTrue(loaded) /\ pc = "exit" /\ Renamed

\* ------------------------------------------------------------------- C4
\* C4: when a run of the script has ended, every folder enumerated at its
\* start has been processed, whatever happened to the folders before it.
C4_EveryFolderProcessed ==
    (pc = "idle" /\ run > 0) => processed = Range(folders)

\* ------------------------------------------------------------------- C5
\* C5: whenever the callback of a folder has returned (and the next folder
\* is about to start) the working directory is the batch root.
C5_CwdRestored ==
    pc \in {"exit", "load"} => cwd = ROOT

C7_LoadFailsSoft ==
    (cur # 0 /\ pc \in {"setup", "idle"} /\ sidecar[cur].kind # "record")
        => /\ ~aborted /\ pc = "setup"
           /\ AllFalse(status)
           /\ baseName(cur, index - 1) # <<>>

\* ------------------------------------------------------------------- C8
\* C8: a stage whose flag is already true in the loaded record invokes none
\* of its commands in the pass, and the step of that stage changes neither
\* the in-memory record nor the sidecar.
StagePc(stage) == stage

C8_StageIdempotent ==
    /\ [](\A s \in Stages : (cur # 0 /\ loaded[s]) =>
             /\ Range(calls) \cap StageCmds(s) = {}
             /\ status[s]
             /\ result[s] \in {"none", "skipped"})
    /\ [][\A s \in Stages : (pc = StagePc(s) /\ loaded[s]) =>
             (status' = status /\ sidecar' = sidecar /\ calls' = calls)]_vars

C8_Witness ==
    /\ cur # 0 /\ loaded.github /\ ~loaded.vercel
    /\ result.github = "skipped" /\ result.vercel = "ok"

\* ------------------------------------------------------------------- C9
\* C9: a pass that starts from an all-false record in which GitHub succeeds,
\* Vercel fails and Netlify succeeds ends with the persisted flags
\* true/false/true and the folder not relocated; in the next pass of that
\* folder only the Vercel commands are invoked among the stage commands.
C9_MixedOutcome ==
    /\ (pc = "exit" /\ IsMixedPass(loaded, result)) =>
          /\ sidecar[cur].kind = "record"
          /\ sidecar[cur].rec.github /\ ~sidecar[cur].rec.vercel
          /\ sidecar[cur].rec.netlify
          /\ loc[cur] = "root" /\ ~Renamed
    /\ (cur # 0 /\ cur \in mixed /\ pc \notin {"exit", "idle"}) =>
          /\ Range(calls) \cap StageCmds("github") = {}
          /\ Range(calls) \cap StageCmds("netlify") = {}
          /\ pc \in {"netlify", "move", "rename"}
                => "vercel deploy" \in Range(calls)

C9_Witness ==
    /\ run = 2 /\ cur # 0 /\ cur \in mixed /\ pc = "move"
    /\ "vercel deploy" \in Range(calls)

\* ------------------------------------------------------------------ C10
\* C10: the stages are attempted in the order GitHub, Vercel, Netlify, and
\* at the end of a pass a stage that was pending at the load has been
\* attempted whenever an earlier stage of the same pass failed.
StageOrder == <<"github", "vercel", "netlify">>

C10_LaterStagesStillRun ==
    /\ \A i, j \in 1..Len(calls) : \A a, b \in 1..3 :
          (calls[i] \in StageCmds(StageOrder[a]) /\
           calls[j] \in StageCmds(StageOrder[b]) /\ a < b) => i < j
    /\ pc = "exit" =>
          \A a, b \in 1..3 :
             (a < b /\ result[StageOrder[a]] \in {"fail", "unsaved"}
                    /\ ~loaded[StageOrder[b]])
                => result[StageOrder[b]] # "none"

\* ------------------------------------------------------------------ C11
\* C11: when the rename throws a lock code N times (N < 10) and then
\* succeeds, the relocation succeeds after exactly N+1 calls of the rename:
\* after a lock failure with fewer than 10 of them another call follows,
\* and the call that succeeds ends the pass with the folder moved.
C11_RetryThenSuccess ==
    /\ (mvLog.last = "lock" /\ mvLog.locked < 10) =>
          (pc = "rename" /\ mvLog.n = mvLog.locked)
    /\ mvLog.last = "ok" =>
          /\ mvLog.locked < 10
          /\ mvLog.n = mvLog.locked + 1
          /\ pc = "exit" /\ exit = "relocated"
          /\ loc[cur] = "done" /\ finalDest \in destEntries

C11_Witness ==
    /\ mvLog.last = "ok" /\ mvLog.locked = 9 /\ mvLog.n = 10
    /\ exit = "relocated" /\ loc[cur] = "done"

C13_NonLockAborts ==
    /\ [](mvLog.last = "other" =>
            /\ pc = "exit" /\ exit = "caught" /\ ~aborted
            /\ loc[cur] = "root" /\ finalDest \notin destEntries)
    /\ [][mvLog.last = "other" =>
            /\ mvLog' = NoRename
            /\ index' = index + 1
            /\ pc' = (IF index < Len(folders) THEN "load" ELSE "idle")]_vars

C13_Witness ==
    /\ mvLog.last = "other" /\ mvLog.locked > 0 /\ exit = "caught"
    /\ index < Len(folders)

\* ------------------------------------------------------------------ C14
\* C14: when "upload done" already has an entry with the folder's name, the
\* move of the folder goes to a suffixed name that is not an entry yet, and
\* no step removes or replaces an entry of "upload done": the only change is
\* the addition of the new name.
C14_CollisionSuffixed ==
    /\ [](pc = "rename" =>
            /\ finalDest[1] = cur
            /\ finalDest \notin destEntries
            /\ <<cur, 0>> \in destEntries => finalDest[2] # 0)
    /\ [][destEntries' # destEntries =>
            /\ finalDest \notin destEntries
            /\ destEntries' = destEntries \cup {finalDest}]_vars

C14_Witness ==
    /\ pc = "exit" /\ exit = "relocated" /\ finalDest[2] # 0
    /\ {<<cur, 0>>, finalDest} \subseteq destEntries

\* ------------------------------------------------------------------ C15
\* C15: when `gh repo create` fails because the remote 'origin' already
\* exists, createGitHubRepo does not go on under a new name: that step keeps
\* the current name, pushes to the existing remote and returns, the stage
\* counting as done.
C15_OriginExistsPushes ==
    [][(pc = "gh_create" /\ ghLog' # ghLog /\ ghLog'.last = "origin") =>
          /\ currentName' = currentName
          /\ "git push master" \in Range(calls')
          /\ pc' = "gh_save" /\ result'.github = "acted"]_vars

\* ------------------------------------------------------------------ C16
\* C16: one call of createGitHubRepo runs `gh repo create` at most 5 times;
\* a further attempt is made only when the attempt before failed because the
\* name is taken, and it is made under the name passed in followed by "-"
\* and a number.
C16_CreateBounded ==
    /\ ghLog.n <= 5
    /\ (pc = "gh_create" /\ ghLog.n = 0) => currentName = projectName
    /\ (pc = "gh_create" /\ ghLog.n > 0 /\ ghLog.n < 5) =>
          /\ ghLog.last = "taken"
          /\ \E sfx \in 0..MaxSuffix :
                currentName = projectName \o <<"-">> \o NumChars(sfx)

C18_CrashResume ==
    /\ [](\A f \in Folders : \A s \in everSaved[f] :
            LoadedStatus(sidecar[f])[s])
    /\ [][\A s \in Stages :
            (cur # 0 /\ s \in everSaved[cur] /\ calls' # calls
               /\ calls' # <<>>)
            => calls'[Len(calls')] \notin StageCmds(s)]_vars

\* ------------------------------------------------------------------ C19
\* C19: under repeated runs in which commands and writes fail only finitely
\* often, every folder of the working root is eventually moved to
\* "upload done".
C19_EventuallyRelocated == \A f \in Folders : <>(loc[f] = "done")

\* ------------------------------------------------------------------ C20
\* C20: in the Vercel and Netlify stages the deploy command is issued
\* whatever the outcome of the provisioning / linking step, and the flag of
\* the stage is true after the stage exactly when the deploy succeeded.
C20_LinkageSwallowed ==
    /\ linkage.vercel # "none" =>
          /\ "vercel deploy" \in Range(calls)
          /\ result.vercel \in {"acted", "ok", "unsaved", "fail"}
          /\ pc = "netlify" =>
                (status.vercel <=> result.vercel \in {"ok", "unsaved"})
    /\ linkage.netlify # "none" =>
          /\ "netlify deploy" \in Range(calls)
          /\ result.netlify \in {"acted", "ok", "unsaved", "fail"}
          /\ pc = "move" =>
                (status.netlify <=> result.netlify \in {"ok", "unsaved"})

C20_Witness ==
    /\ pc = "move" /\ linkage.netlify = "fail"
    /\ "netlify deploy" \in Range(calls)
    /\ result.netlify = "ok" /\ status.netlify

\* ------------------------------------------------------------------ C21
\* C21: every call of the rename is made while the working directory is the
\* batch root, never while it is the folder being moved: the directory is
\* switched back before the first call.
C21_RenameFromRoot ==
    /\ pc = "rename" => cwd = ROOT
    /\ mvLog.n > 0 => (cwd = ROOT /\ cwd # cur)

C21_Witness ==
    /\ pc = "rename" /\ mvLog.n > 0 /\ mvLog.last = "lock"
    /\ cwd = ROOT /\ "git add/commit" \in Range(calls)

\* ------------------------------------------------------------------ C22
\* C22: a folder whose pass ended in the catch of the callback is still in
\* the working root, no call of the rename follows the catch, and the
\* folder is not entered again in the same run.
C22_CaughtNotRelocated ==
    /\ [](exit = "caught" =>
            /\ pc = "exit" /\ loc[cur] = "root"
            /\ mvLog.last \in {"none", "other"})
    /\ [][exit = "caught" =>
            /\ loc' = loc /\ destEntries' = destEntries
            /\ mvLog' = NoRename]_vars
    /\ [][(cur' # cur /\ cur' # 0) => cur' \notin processed]_vars

C22_Witness ==
    /\ pc = "exit" /\ exit = "caught" /\ result.github = "unsaved"
    /\ loc[cur] = "root" /\ mvLog = NoRename

\* ------------------------------------------------------------------ C23
\* C23: when the GitHub stage of a folder starts the folder has a
\* .gitignore; the file is written only when it was missing, with the
\* template, and a .gitignore that exists is never changed.
C23_IgnoreOnlyIfMissing ==
    /\ [](pc \in {"github", "gh_create", "gh_save"} =>
            gitignore[cur] # "absent")
    /\ [][\A f \in Folders :
            /\ gitignore[f] # "absent" => gitignore'[f] = gitignore[f]
            /\ gitignore'[f] # gitignore[f] =>
                  (f = cur /\ pc = "setup" /\ gitignore'[f] = "template")]_vars

C23_Witness ==
    /\ run = 2 /\ pc = "github" /\ gitignore[cur] = "template"
    /\ loaded.github

C25_RelocatedTerminal ==
    /\ [](/\ UploadDone \notin Range(folders)
          /\ cur # 0 => cur \in Folders
          /\ (cur # 0 /\ cur \in Folders /\ loc[cur] = "done") =>
                (pc = "exit" /\ exit = "relocated"))
    /\ [][\A f \in Folders : loc[f] = "done" => loc'[f] = "done"]_vars
    /\ [][folders' # folders =>
            \A f \in Folders \cap Range(folders') : loc[f] = "root"]_vars

C25_Witness ==
    /\ run = 2 /\ cur # 0 /\ pc = "github"
    /\ \E f \in Folders : loc[f] = "done" /\ f \notin Range(folders)

\* ------------------------------------------------------------------ C26
\* C26: in the Vercel and in the Netlify stage a project / site is
\* provisioned only when the folder has no local linkage (.vercel,
\* .netlify); with a linkage the stage runs the deploy command and no
\* provisioning command.
C26_ProvisionOnlyUnlinked ==
    [][/\ (pc = "vercel" /\ dotVercel[cur] /\ calls' # calls) =>
            /\ "vercel project add" \notin Range(calls')
            /\ "vercel deploy" \in Range(calls')
       /\ (pc = "netlify" /\ dotNetlify[cur] /\ calls' # calls) =>
            /\ "netlify sites:create" \notin Range(calls')
            /\ "netlify link" \notin Range(calls')
            /\ "netlify deploy" \in Range(calls')]_vars

\* ------------------------------------------------------------------ C27
\* C27: whenever a rename of a folder is attempted, the sidecar in the
\* folder has all three flags true.
C27_RenameOnlyWhenPersisted ==
    (pc = "rename" \/ mvLog.n > 0) =>
        /\ sidecar[cur].kind = "record"
        /\ sidecar[cur].rec.github /\ sidecar[cur].rec.vercel
        /\ sidecar[cur].rec.netlify

\* ------------------------------------------------------------------ C28
\* C28: when the GitHub stage writes its flag and a name to the sidecar,
\* the name is the one of a `gh repo create` that was made and succeeded
\* (or the unchanged name, after a push to the existing remote).
C28_PersistedNameCreated ==
    [][(pc = "gh_save" /\ sidecar'[cur] # sidecar[cur]) =>
          \/ ghLog.last = "ok"
          \/ /\ ghLog.last = "origin" /\ currentName = projectName
             /\ "git push master" \in Range(calls)]_vars

====
